---- MODULE Spec2Model ----
(***************************************************************************)
(* A model of the gem colour library: the packed 16-bit formats (Rgb565,   *)
(* Argb1555, Argb4444) with their shift/mask/clear field tables, and the   *)
(* alpha composites (AlphaFirst, AlphaLast) over field-stored payloads     *)
(* (Rgb888, Bgr888, Gray8).                                                *)
(*                                                                         *)
(* One colour value is under test at a time.  Its type `ty` and the byte   *)
(* order of the build `endian` are fixed in the initial state; the value   *)
(* starts as Default::default(), is (optionally) replaced once by one of   *)
(* the type's constructors, and is then mutated by setter calls (Spec).    *)
(*                                                                         *)
(* TraitSpec constructs one value through the provided RgbColor and        *)
(* RgbaColor constructors, with_color or Rgb565::new and then consumes it  *)
(* (into_rgb, into_rgba, into_inner).  ScalarSpec applies chains of the    *)
(* scalar conversions to one u8, u16, f32 or f64 value, with f32 and f64   *)
(* arithmetic computed exactly as IEEE 754 binary32 and binary64.          *)
(***************************************************************************)
EXTENDS Integers, Naturals, Sequences, FiniteSets, TLC

(***************************************************************************)
(* Bounds of the exploration.                                              *)
(***************************************************************************)
\* Longest sequence of setter calls applied to one colour value.
MaxCalls == 2

\* 8-bit arguments handed to constructors and setters: the extremes, the
\* maxima of the 4-, 5- and 6-bit fields, and an alternating bit pattern
\* (0xAA) whose bits above every field width are set.
ByteSamples == {0, 15, 31, 63, 170, 255}

\* 8-bit arguments handed to the constructors that take three of them: the
\* extremes, a 5-bit maximum and the alternating pattern.
CtorSamples == {0, 31, 170, 255}

\* 8-bit arguments handed to the constructors that take four of them.
QuadSamples == {0, 170, 255}

\* 16-bit words handed to the packed `new`: all-zero, all-one, the two
\* alternating patterns and a word with only bit 15 set.
WordSamples == {0, 21845, 32768, 43690, 65535}

\* 32-bit words handed to the 8888 `new`, each written as its two 16-bit
\* halves <<high, low>>: zero, all-one, the palindromic word of the unit
\* tests (0xFF0000FF) and a word whose four bytes differ (0x01020304).
DWordSamples == {<<0, 0>>, <<258, 772>>, <<65280, 255>>, <<65535, 65535>>}

(***************************************************************************)
(* Integer arithmetic of the fixed-width types.                            *)
(***************************************************************************)
U8Max == 255
U16Max == 65535

RECURSIVE BitAnd(_, _)
\* a & b
BitAnd(a, b) ==
    IF a = 0 \/ b = 0 THEN 0
    ELSE (a % 2) * (b % 2) + 2 * BitAnd(a \div 2, b \div 2)

RECURSIVE BitOr(_, _)
\* a | b
BitOr(a, b) ==
    IF a = 0 THEN b
    ELSE IF b = 0 THEN a
    ELSE (IF a % 2 = 1 \/ b % 2 = 1 THEN 1 ELSE 0) + 2 * BitOr(a \div 2, b \div 2)

\* a >> s
Shr(a, s) == a \div (2 ^ s)

\* a << s on a u16: bits shifted past bit 15 are lost
Shl16(a, s) == (a * (2 ^ s)) % (U16Max + 1)

\* A u32 is held as its two 16-bit halves <<high, low>>.
\* (a as u32) << s, for a u8 a
Shl32(a, s) ==
    IF s >= 16 THEN <<Shl16(a, s - 16), 0>>
    ELSE <<(a * (2 ^ s)) \div (U16Max + 1), (a * (2 ^ s)) % (U16Max + 1)>>

\* x | y on u32
BitOr32(x, y) == <<BitOr(x[1], y[1]), BitOr(x[2], y[2])>>

\* !a on a u16
Not16(a) == U16Max - a

\* `as u8`: truncation to the low 8 bits
AsU8(a) == a % (U8Max + 1)

(***************************************************************************)
(* The packed bit-field codec.                                             *)
(***************************************************************************)
\* Rgb565Fields with a five-bit green mask
Rgb565Fields_FiveBitGreen ==
    [red   |-> [shift |-> 11, mask |-> 31, clear |-> 65504],
     green |-> [shift |-> 5,  mask |-> 31, clear |-> 65439],
     blue  |-> [shift |-> 0,  mask |-> 31, clear |-> 65504]]

\* Field table of Rgb565: impl_rgb_packed!(Rgb565, ...).
\* clear: red 0xFFE0, green 0xFF9F, blue 0xFFE0.
Rgb565Fields ==
    [red   |-> [shift |-> 11, mask |-> 31, clear |-> 65504],
     green |-> [shift |-> 5,  mask |-> 63, clear |-> 65439],
     blue  |-> [shift |-> 0,  mask |-> 31, clear |-> 65504]]

\* Argb1555Fields with the six-bit green mask of Rgb565
Argb1555Fields_SixBitGreen ==
    [alpha |-> [shift |-> 15, mask |-> 1,  clear |-> 32767],
     red   |-> [shift |-> 10, mask |-> 31, clear |-> 65504],
     green |-> [shift |-> 5,  mask |-> 63, clear |-> 65439],
     blue  |-> [shift |-> 0,  mask |-> 31, clear |-> 65504]]

\* Field table of Argb1555: impl_rgb_packed!(Argb1555, ...) and
\* impl_with_alpha_packed!(Argb1555, 15, 0x01, 0x7FFF).
\* clear: red 0xFFE0, green 0xFF9F, blue 0xFFE0, alpha 0x7FFF.
Argb1555Fields ==
    [alpha |-> [shift |-> 15, mask |-> 1,  clear |-> 32767],
     red   |-> [shift |-> 10, mask |-> 31, clear |-> 65504],
     green |-> [shift |-> 5,  mask |-> 31, clear |-> 65439],
     blue  |-> [shift |-> 0,  mask |-> 31, clear |-> 65504]]

\* Argb4444Fields with the red and green clear constants of the other two
\* tables (0xFFE0, 0xFF9F) pasted in.
Argb4444Fields_PastedClear ==
    [alpha |-> [shift |-> 12, mask |-> 15, clear |-> 4095],
     red   |-> [shift |-> 8,  mask |-> 15, clear |-> 65504],
     green |-> [shift |-> 4,  mask |-> 15, clear |-> 65439],
     blue  |-> [shift |-> 0,  mask |-> 15, clear |-> 65520]]

\* Field table of Argb4444: impl_rgb_packed!(Argb4444, ...) and
\* impl_with_alpha_packed!(Argb4444, 12, 0x0F, 0x0FFF).
\* clear: red 0xF0FF, green 0xFF0F, blue 0xFFF0, alpha 0x0FFF.
Argb4444Fields ==
    [alpha |-> [shift |-> 12, mask |-> 15, clear |-> 4095],
     red   |-> [shift |-> 8,  mask |-> 15, clear |-> 61695],
     green |-> [shift |-> 4,  mask |-> 15, clear |-> 65295],
     blue  |-> [shift |-> 0,  mask |-> 15, clear |-> 65520]]

PackedTypes == {"Rgb565", "Argb1555", "Argb4444"}

\* The field table the macros were instantiated with for packed type t.
Fields(t) ==
    CASE t = "Rgb565"   -> Rgb565Fields
      [] t = "Argb1555" -> Argb1555Fields
      [] t = "Argb4444" -> Argb4444Fields

\* PackedGet without the mask: (self.packed >> shift) as u8
PackedGet_NoMask(f, p) == AsU8(Shr(p, f.shift))

\* Getter body of the macros: ((self.packed >> shift) & mask) as u8
PackedGet(f, p) == AsU8(BitAnd(Shr(p, f.shift), f.mask))

\* Setter body of the macros:
\* self.packed = (self.packed & clear) | ((u16::from(value) & mask) << shift)
PackedSet(f, p, value) ==
    BitOr(BitAnd(p, f.clear), Shl16(BitAnd(value, f.mask), f.shift))

\* Rgb565::from_rgb keeping five bits of green
Rgb565_from_rgb_FiveBitGreen(r, g, b) ==
    BitOr(BitOr(Shl16(BitAnd(r, 31), 11), Shl16(BitAnd(g, 31), 5)), BitAnd(b, 31))

\* Rgb565::from_rgb
Rgb565_from_rgb(r, g, b) ==
    BitOr(BitOr(Shl16(BitAnd(r, 31), 11), Shl16(BitAnd(g, 63), 5)), BitAnd(b, 31))

\* Argb1555::from_rgb without the 0x8000 alpha bit
Argb1555_from_rgb_NoAlpha(r, g, b) ==
    BitOr(BitOr(Shl16(BitAnd(r, 31), 10), Shl16(BitAnd(g, 31), 5)), BitAnd(b, 31))

\* Argb1555::from_rgb: 0x8000 | r << 10 | g << 5 | b
Argb1555_from_rgb(r, g, b) ==
    BitOr(BitOr(BitOr(32768, Shl16(BitAnd(r, 31), 10)), Shl16(BitAnd(g, 31), 5)),
          BitAnd(b, 31))

\* Argb4444::from_argb
Argb4444_from_argb(a, r, g, b) ==
    BitOr(BitOr(BitOr(Shl16(BitAnd(a, 15), 12), Shl16(BitAnd(r, 15), 8)),
                Shl16(BitAnd(g, 15), 4)),
          BitAnd(b, 15))

(***************************************************************************)
(* Field-stored payloads and the alpha composites.                         *)
(***************************************************************************)
AlphaFirstTypes == {"Abgr8888", "Argb8888"}
AlphaLastTypes == {"AlphaLastRgb888", "GrayAlpha8"}
Types == PackedTypes \cup AlphaFirstTypes \cup AlphaLastTypes

\* Rgb<u8> and Bgr<u8> on their own: three u8 fields, no alpha.
PlainTypes == {"Rgb888", "Bgr888"}

Endian == {"little", "big"}

\* The components a type has accessors for.
Components(t) ==
    CASE t \in {"Rgb565"} \cup PlainTypes -> {"red", "green", "blue"}
      [] t = "GrayAlpha8" -> {"gray", "alpha"}
      [] OTHER -> {"alpha", "red", "green", "blue"}

\* Rgb::new: the payload holds its three fields as given.
RgbNew(red, green, blue) == [r |-> red, g |-> green, b |-> blue]

\* Bgr::new
BgrNew(blue, green, red) == [b |-> blue, g |-> green, r |-> red]

\* Gray::new
GrayNew(gray) == [gray |-> gray]

\* with_color dropping the alpha it is given
with_color_ZeroAlpha(alpha, color) == [alpha |-> 0, color |-> color]

\* AlphaFirst::with_color / AlphaLast::with_color
with_color(alpha, color) == [alpha |-> alpha, color |-> color]

\* #[derive(Default)]: every field zero.
Default(t) ==
    CASE t \in PackedTypes -> [packed |-> 0]
      [] t = "Rgb888"      -> RgbNew(0, 0, 0)
      [] t = "Bgr888"      -> BgrNew(0, 0, 0)
      [] t = "GrayAlpha8"  -> with_color(0, GrayNew(0))
      [] OTHER             -> with_color(0, RgbNew(0, 0, 0))

\* Intensity::MAX of the u8 alpha component
AlphaMax == U8Max

\* The four bytes of a u32 in memory, first address first.
ToNativeBytes(e, p) ==
    LET le == <<p[2] % 256, p[2] \div 256, p[1] % 256, p[1] \div 256>>
    IN IF e = "little" THEN le ELSE <<le[4], le[3], le[2], le[1]>>

\* Abgr8888::new: mem::transmute of the u32 into the #[repr(C)] struct
\* { alpha: u8, color: Bgr { b, g, r } }.
Abgr8888_new(e, p) ==
    LET m == ToNativeBytes(e, p)
    IN with_color(m[1], BgrNew(m[2], m[3], m[4]))

\* Argb8888::new: mem::transmute of the u32 into the #[repr(C)] struct
\* { alpha: u8, color: Rgb { r, g, b } }.
Argb8888_new(e, p) ==
    LET m == ToNativeBytes(e, p)
    IN with_color(m[1], RgbNew(m[2], m[3], m[4]))

\* Abgr8888::from_abgr
from_abgr(e, a, b, g, r) ==
    Abgr8888_new(e, BitOr32(BitOr32(BitOr32(Shl32(a, 24), Shl32(b, 16)), Shl32(g, 8)), Shl32(r, 0)))

\* Argb8888::from_argb
from_argb(e, a, r, g, b) ==
    Argb8888_new(e, BitOr32(BitOr32(BitOr32(Shl32(a, 24), Shl32(r, 16)), Shl32(g, 8)), Shl32(b, 0)))

(***************************************************************************)
(* Accessors, on a colour value c of type t.                               *)
(***************************************************************************)
\* HasAlpha::alpha
alpha(t, c) == IF t \in PackedTypes THEN PackedGet(Fields(t).alpha, c.packed) ELSE c.alpha

\* HasRed::red
red(t, c) ==
    IF t \in PackedTypes THEN PackedGet(Fields(t).red, c.packed)
    ELSE IF t \in PlainTypes THEN c.r
    ELSE c.color.r

\* green reading the red field
green_ReadsRed(t, c) == red(t, c)

\* HasGreen::green
green(t, c) ==
    IF t \in PackedTypes THEN PackedGet(Fields(t).green, c.packed)
    ELSE IF t \in PlainTypes THEN c.g
    ELSE c.color.g

\* HasBlue::blue
blue(t, c) ==
    IF t \in PackedTypes THEN PackedGet(Fields(t).blue, c.packed)
    ELSE IF t \in PlainTypes THEN c.b
    ELSE c.color.b

\* HasGray::gray
gray(t, c) == c.color.gray

\* The getter of component k.
Get(t, c, k) ==
    CASE k = "alpha" -> alpha(t, c)
      [] k = "red"   -> red(t, c)
      [] k = "green" -> green(t, c)
      [] k = "blue"  -> blue(t, c)
      [] k = "gray"  -> gray(t, c)

\* set_alpha rebuilding the composite around a fresh payload
set_alpha_FreshColor(t, c, value) ==
    IF t \in PackedTypes
    THEN [c EXCEPT !.packed = PackedSet(Fields(t).alpha, c.packed, value)]
    ELSE with_color(value, Default(t).color)

\* HasAlpha::set_alpha
set_alpha(t, c, value) ==
    IF t \in PackedTypes
    THEN [c EXCEPT !.packed = PackedSet(Fields(t).alpha, c.packed, value)]
    ELSE [c EXCEPT !.alpha = value]

\* HasRed::set_red
set_red(t, c, value) ==
    IF t \in PackedTypes
    THEN [c EXCEPT !.packed = PackedSet(Fields(t).red, c.packed, value)]
    ELSE IF t \in PlainTypes THEN [c EXCEPT !.r = value]
    ELSE with_color(c.alpha, [c.color EXCEPT !.r = value])

\* HasGreen::set_green
set_green(t, c, value) ==
    IF t \in PackedTypes
    THEN [c EXCEPT !.packed = PackedSet(Fields(t).green, c.packed, value)]
    ELSE IF t \in PlainTypes THEN [c EXCEPT !.g = value]
    ELSE with_color(c.alpha, [c.color EXCEPT !.g = value])

\* HasBlue::set_blue
set_blue(t, c, value) ==
    IF t \in PackedTypes
    THEN [c EXCEPT !.packed = PackedSet(Fields(t).blue, c.packed, value)]
    ELSE IF t \in PlainTypes THEN [c EXCEPT !.b = value]
    ELSE with_color(c.alpha, [c.color EXCEPT !.b = value])

\* HasGray::set_gray on GrayAlpha
set_gray(t, c, value) == with_color(c.alpha, [c.color EXCEPT !.gray = value])

\* The setter of component k.
Set(t, c, k, value) ==
    CASE k = "alpha" -> set_alpha(t, c, value)
      [] k = "red"   -> set_red(t, c, value)
      [] k = "green" -> set_green(t, c, value)
      [] k = "blue"  -> set_blue(t, c, value)
      [] k = "gray"  -> set_gray(t, c, value)

(***************************************************************************)
(* Single-component constructors.                                          *)
(***************************************************************************)
\* AlphaFirst new_red without the set_alpha(A::MAX) call
AlphaFirst_new_red_NoAlpha(t, value) == set_red(t, Default(t), value)

\* HasRed::new_red for AlphaFirst<A, C>
AlphaFirst_new_red(t, value) == set_alpha(t, set_red(t, Default(t), value), AlphaMax)

\* HasGreen::new_green for AlphaFirst<A, C>
AlphaFirst_new_green(t, value) == set_alpha(t, set_green(t, Default(t), value), AlphaMax)

\* HasBlue::new_blue for AlphaFirst<A, C>
AlphaFirst_new_blue(t, value) == set_alpha(t, set_blue(t, Default(t), value), AlphaMax)

\* HasRed::new_red for AlphaLast<A, C>: no set_alpha call
AlphaLast_new_red(t, value) == set_red(t, Default(t), value)

\* HasGreen::new_green for AlphaLast<A, C>
AlphaLast_new_green(t, value) == set_alpha(t, set_green(t, Default(t), value), AlphaMax)

\* HasBlue::new_blue for AlphaLast<A, C>
AlphaLast_new_blue(t, value) == set_alpha(t, set_blue(t, Default(t), value), AlphaMax)

\* new_gray with the opaque-alpha step of the rgb single-channel constructors
new_gray_Opaque(t, value) == set_alpha(t, set_gray(t, Default(t), value), AlphaMax)

\* HasGray::new_gray (provided method)
new_gray(t, value) == set_gray(t, Default(t), value)

\* HasAlpha::new_alpha (provided method)
new_alpha(t, value) == set_alpha(t, Default(t), value)

\* GrayAlpha8::new
GrayAlpha8_new(g, a) == with_color(a, GrayNew(g))

(***************************************************************************)
(* In-memory layout of the #[repr(C)] composites.                          *)
(***************************************************************************)
\* A u8 field: one byte, alignment one.
U8Field(value) == [align |-> 1, bytes |-> <<value>>]

\* The payload struct as a field of the composite: Rgb { r, g, b },
\* Bgr { b, g, r } and Gray { gray } hold u8 fields in declaration order.
PayloadField(t, color) ==
    [align |-> 1,
     bytes |-> CASE t = "Abgr8888"   -> <<color.b, color.g, color.r>>
                 [] t = "GrayAlpha8" -> <<color.gray>>
                 [] OTHER            -> <<color.r, color.g, color.b>>]

\* AlphaFirst with the fields declared in AlphaLast's order
AlphaFirst_fields_ColorFirst(t, c) == <<PayloadField(t, c.color), U8Field(c.alpha)>>

\* struct AlphaFirst<A, C> { alpha: A, color: C }
AlphaFirst_fields(t, c) == <<U8Field(c.alpha), PayloadField(t, c.color)>>

\* struct AlphaLast<A, C> { color: C, alpha: A }
AlphaLast_fields(t, c) == <<PayloadField(t, c.color), U8Field(c.alpha)>>

\* #[repr(C)]: the fields lie in declaration order, each at the next offset
\* that is a multiple of its alignment, and the size is a multiple of the
\* largest alignment; bytes between fields are padding (Padding).
Padding == -1

RECURSIVE ReprC(_, _, _)
ReprC(fields, placed, align) ==
    LET Pad(n, a) == [i \in 1..((a - (n % a)) % a) |-> Padding]
    IN IF fields = <<>>
       THEN placed \o Pad(Len(placed), align)
       ELSE LET f == Head(fields)
                at == placed \o Pad(Len(placed), f.align)
            IN ReprC(Tail(fields), at \o f.bytes, IF f.align > align THEN f.align ELSE align)

\* core::mem::transmute of a composite into [u8; N]
transmute_bytes(t, c) ==
    ReprC(IF t \in AlphaFirstTypes THEN AlphaFirst_fields(t, c) ELSE AlphaLast_fields(t, c),
          <<>>, 1)

(***************************************************************************)
(* Binary floating point.  A magnitude is a natural number of any size,    *)
(* written in limbs of LimbBits bits, least significant first, without     *)
(* leading zero limbs (<<>> is 0); a finite float is sign, odd magnitude m *)
(* and exponent e, with value m * 2^e.                                     *)
(***************************************************************************)
LimbBits == 15

Base == 2 ^ LimbBits

RECURSIVE NatToLimbs(_)
NatToLimbs(n) == IF n = 0 THEN <<>> ELSE <<n % Base>> \o NatToLimbs(n \div Base)

RECURSIVE LimbsToNat(_)
LimbsToNat(a) == IF a = <<>> THEN 0 ELSE a[1] + Base * LimbsToNat(Tail(a))

RECURSIVE Trim(_)
Trim(a) == IF a = <<>> \/ a[Len(a)] # 0 THEN a ELSE Trim(SubSeq(a, 1, Len(a) - 1))

RECURSIVE BAddC(_, _, _)
BAddC(a, b, c) ==
    IF a = <<>> /\ b = <<>>
    THEN IF c = 0 THEN <<>> ELSE <<c>>
    ELSE LET x == IF a = <<>> THEN 0 ELSE a[1]
             y == IF b = <<>> THEN 0 ELSE b[1]
         IN <<(x + y + c) % Base>> \o
            BAddC(IF a = <<>> THEN a ELSE Tail(a), IF b = <<>> THEN b ELSE Tail(b),
                  (x + y + c) \div Base)

RECURSIVE BSubC(_, _, _)
BSubC(a, b, c) ==
    IF a = <<>>
    THEN <<>>
    ELSE LET d == a[1] - (IF b = <<>> THEN 0 ELSE b[1]) - c
         IN <<d % Base>> \o
            BSubC(Tail(a), IF b = <<>> THEN b ELSE Tail(b), IF d < 0 THEN 1 ELSE 0)

RECURSIVE BMulSmallC(_, _, _)
BMulSmallC(a, c, carry) ==
    IF a = <<>>
    THEN IF carry = 0 THEN <<>> ELSE <<carry>>
    ELSE <<(a[1] * c + carry) % Base>> \o BMulSmallC(Tail(a), c, (a[1] * c + carry) \div Base)

\* a * c for a limb c
BMulSmall(a, c) == IF c = 0 THEN <<>> ELSE BMulSmallC(a, c, 0)

RECURSIVE BMul(_, _)
BMul(a, b) ==
    IF a = <<>> \/ b = <<>>
    THEN <<>>
    ELSE LET rest == BMul(a, Tail(b))
         IN BAddC(BMulSmall(a, b[1]), IF rest = <<>> THEN rest ELSE <<0>> \o rest, 0)

\* a * 2^k
BShl(a, k) ==
    IF a = <<>> THEN a
    ELSE [i \in 1..(k \div LimbBits) |-> 0] \o BMulSmall(a, 2 ^ (k % LimbBits))

\* a \div 2^k
BShr(a, k) ==
    LET q == k \div LimbBits
        r == k % LimbBits
    IN IF q >= Len(a) THEN <<>>
       ELSE Trim([i \in 1..(Len(a) - q) |->
                    (a[q + i] \div (2 ^ r)) +
                    (IF q + i < Len(a) THEN (a[q + i + 1] % (2 ^ r)) * (2 ^ (LimbBits - r)) ELSE 0)])

\* the number of bits of a: 0 for 0, else 1 + floor(log2 a)
BitLen(a) ==
    IF a = <<>> THEN 0
    ELSE LimbBits * (Len(a) - 1) +
         (CHOOSE k \in 1..LimbBits : 2 ^ (k - 1) <= a[Len(a)] /\ a[Len(a)] < 2 ^ k)

\* bit i of a, counting the least significant as 1
Bit(a, i) ==
    IF (i - 1) \div LimbBits >= Len(a) THEN 0
    ELSE (a[(i - 1) \div LimbBits + 1] \div (2 ^ ((i - 1) % LimbBits))) % 2

\* a is a multiple of 2^d
LowBitsZero(a, d) == \A i \in 1..d : Bit(a, i) = 0

\* 2^k - 1
Ones(k) == Trim(BSubC(BShl(<<1>>, k), <<1>>, 0))

\* -1, 0 or 1 as a is below, equal to or above b: the lengths decide, then
\* the most significant limb in which they differ
BCmp(a, b) ==
    IF Len(a) > Len(b) THEN 1
    ELSE IF Len(a) < Len(b) THEN -1
    ELSE LET differ == {i \in 1..Len(a) : a[i] # b[i]}
         IN IF differ = {} THEN 0
            ELSE LET top == CHOOSE i \in differ : \A j \in differ : j <= i
                 IN IF a[top] > b[top] THEN 1 ELSE -1

\* Division by a number d of at most 16 bits, limb by limb from the top:
\* the quotient limbs and the remainder.
RECURSIVE BDivSmall(_, _, _, _)
BDivSmall(a, i, d, st) ==
    IF i = 0
    THEN [q |-> Trim(st.q), rem |-> st.rem]
    ELSE BDivSmall(a, i - 1, d,
                   [q |-> <<(st.rem * Base + a[i]) \div d>> \o st.q,
                    rem |-> (st.rem * Base + a[i]) % d])

\* the number of low zero bits of a > 0
LowZeros(a) == CHOOSE z \in 0..BitLen(a) : Bit(a, z + 1) = 1 /\ LowBitsZero(a, z)

\* significand bits, the implicit one included
Precision(fmt) == IF fmt = "f32" THEN 24 ELSE 53

\* every finite value is below 2^EMax
EMax(fmt) == IF fmt = "f32" THEN 128 ELSE 1024

\* every finite value is a multiple of 2^EMin (the smallest subnormal)
EMin(fmt) == IF fmt = "f32" THEN -149 ELSE -1074

NaN == [kind |-> "nan", neg |-> FALSE, m |-> <<>>, e |-> 0]

Inf(neg) == [kind |-> "inf", neg |-> neg, m |-> <<>>, e |-> 0]

\* the float of value (-1)^neg * m * 2^e, in its unique form (m odd, or 0)
Finite(neg, m, e) ==
    IF m = <<>>
    THEN [kind |-> "finite", neg |-> neg, m |-> <<>>, e |-> 0]
    ELSE [kind |-> "finite", neg |-> neg, m |-> BShr(m, LowZeros(m)), e |-> e + LowZeros(m)]

IsZero(x) == x.kind = "finite" /\ x.m = <<>>

\* The exact value (-1)^neg * m * 2^e rounded into the format: to nearest,
\* ties to even, to infinity beyond the largest finite value.
FRound(neg, m, e, fmt) ==
    LET byPrec == BitLen(m) - Precision(fmt)
        bySub  == EMin(fmt) - e
        d      == IF byPrec > bySub THEN (IF byPrec > 0 THEN byPrec ELSE 0)
                  ELSE (IF bySub > 0 THEN bySub ELSE 0)
        kept   == BShr(m, d)
        guard  == d >= 1 /\ Bit(m, d) = 1
        sticky == d >= 2 /\ ~LowBitsZero(m, d - 1)
        up     == guard /\ (sticky \/ Bit(kept, 1) = 1)
        r      == IF up THEN BAddC(kept, <<1>>, 0) ELSE kept
    IN IF BitLen(r) + e + d > EMax(fmt) THEN Inf(neg) ELSE Finite(neg, r, e + d)

\* f32::from(u8), f32::from(u16), `as f32` of a natural number
FromNat(n) == Finite(FALSE, NatToLimbs(n), 0)

\* |x| against |y| for finite x, y
MagCmp(x, y) ==
    LET e == IF x.e < y.e THEN x.e ELSE y.e
    IN BCmp(BShl(x.m, x.e - e), BShl(y.m, y.e - e))

\* x < y (false when either is NaN; -0.0 and 0.0 are equal)
FLt(x, y) ==
    IF x.kind = "nan" \/ y.kind = "nan" THEN FALSE
    ELSE IF IsZero(x) /\ IsZero(y) THEN FALSE
    ELSE IF x.neg # y.neg THEN x.neg
    ELSE LET c == IF x.kind = "inf" /\ y.kind = "inf" THEN 0
                  ELSE IF x.kind = "inf" THEN 1
                  ELSE IF y.kind = "inf" THEN -1
                  ELSE MagCmp(x, y)
         IN IF x.neg THEN c = 1 ELSE c = -1

\* x <= y
FLe(x, y) == x.kind # "nan" /\ y.kind # "nan" /\ ~FLt(y, x)

\* x * y in the format
FMul(x, y, fmt) ==
    IF x.kind = "nan" \/ y.kind = "nan" THEN NaN
    ELSE IF x.kind = "inf" \/ y.kind = "inf"
         THEN IF IsZero(x) \/ IsZero(y) THEN NaN ELSE Inf(x.neg # y.neg)
    ELSE FRound(x.neg # y.neg, BMul(x.m, y.m), x.e + y.e, fmt)

\* x / y in the format; the divisor's magnitude has at most 16 bits.  The
\* quotient is taken to Precision + 2 bits or more, with one more bit that
\* is set when the division left a remainder, and rounded.
FDiv(x, y, fmt) ==
    IF x.kind = "nan" \/ y.kind = "nan" THEN NaN
    ELSE IF x.kind = "inf" THEN (IF y.kind = "inf" THEN NaN ELSE Inf(x.neg # y.neg))
    ELSE IF y.kind = "inf" THEN Finite(x.neg # y.neg, <<>>, 0)
    ELSE IF IsZero(y) THEN (IF IsZero(x) THEN NaN ELSE Inf(x.neg # y.neg))
    ELSE LET k  == Precision(fmt) + 2 + BitLen(y.m)
             n  == BShl(x.m, k)
             st == BDivSmall(n, Len(n), LimbsToNat(y.m), [q |-> <<>>, rem |-> 0])
             q  == BAddC(BShl(st.q, 1), IF st.rem = 0 THEN <<>> ELSE <<1>>, 0)
         IN FRound(x.neg # y.neg, q, x.e - y.e - k - 1, fmt)

\* x + y in the format
FAdd(x, y, fmt) ==
    IF x.kind = "nan" \/ y.kind = "nan" THEN NaN
    ELSE IF x.kind = "inf" THEN (IF y.kind = "inf" /\ y.neg # x.neg THEN NaN ELSE x)
    ELSE IF y.kind = "inf" THEN y
    ELSE LET e  == IF x.e < y.e THEN x.e ELSE y.e
             a  == BShl(x.m, x.e - e)
             b  == BShl(y.m, y.e - e)
             c  == BCmp(a, b)
         IN IF x.neg = y.neg THEN FRound(x.neg, BAddC(a, b, 0), e, fmt)
            ELSE IF c = 0 THEN Finite(FALSE, <<>>, 0)
            ELSE IF c = 1 THEN FRound(x.neg, Trim(BSubC(a, b, 0)), e, fmt)
            ELSE FRound(y.neg, Trim(BSubC(b, a, 0)), e, fmt)

\* x - y in the format
FSub(x, y, fmt) == FAdd(x, [y EXCEPT !.neg = ~y.neg], fmt)

\* the integer part of |x|, for finite x
TruncMag(x) == IF x.e >= 0 THEN BShl(x.m, x.e) ELSE BShr(x.m, -x.e)

\* the cast reduced modulo 2^8 or 2^16 instead of saturated
AsUnsigned_Wrapping(x, max) ==
    IF x.kind # "finite" THEN 0
    ELSE LimbsToNat(SubSeq(TruncMag(x) \o <<0, 0>>, 1, 2)) % (max + 1)

\* `x as u8`, `x as u16`: toward zero, saturating, NaN to 0
AsUnsigned(x, max) ==
    IF x.kind = "nan" THEN 0
    ELSE IF x.neg THEN 0
    ELSE IF x.kind = "inf" THEN max
    ELSE IF BitLen(TruncMag(x)) > 16 THEN max
    ELSE IF LimbsToNat(TruncMag(x)) > max THEN max
    ELSE LimbsToNat(TruncMag(x))

\* `x as i32` (bits = 32), `x as i64` (bits = 64): toward zero, saturating,
\* NaN to 0; the result as sign and magnitude.
AsSigned(x, bits) ==
    IF x.kind = "nan" THEN [neg |-> FALSE, m |-> <<>>]
    ELSE IF x.kind = "inf" \/ BitLen(TruncMag(x)) >= bits
         THEN [neg |-> x.neg,
               m   |-> IF x.neg THEN BShl(<<1>>, bits - 1) ELSE Ones(bits - 1)]
    ELSE [neg |-> x.neg /\ TruncMag(x) # <<>>, m |-> TruncMag(x)]

\* `i as f32`, `i as f64` of a signed integer
SignedToFloat(i, fmt) == FRound(i.neg, i.m, 0, fmt)

(***************************************************************************)
(* Rounding (math.rs, internal/math.rs) and the scalar conversions.        *)
(***************************************************************************)
\* The builds: feature "std", feature "libm" without "std", or neither.
Builds == {"std", "libm", "fallback"}

Zero == Finite(FALSE, <<>>, 0)

Half == Finite(FALSE, <<1>>, -1)

One == Finite(FALSE, <<1>>, 0)

\* f32::round, f64::round, libm::roundf, libm::round: the nearest integer,
\* halfway cases away from zero.
RoundHalfAway(x) ==
    IF x.kind # "finite" \/ x.e >= 0
    THEN x
    ELSE IF Bit(x.m, -x.e) = 1
         THEN Finite(x.neg, BAddC(BShr(x.m, -x.e), <<1>>, 0), 0)
         ELSE Finite(x.neg, BShr(x.m, -x.e), 0)

\* math/impl_std.rs round_f32, round_f64
impl_std_round(value) == RoundHalfAway(value)

\* math/impl_libm.rs round_f32, round_f64
impl_libm_round(value) == RoundHalfAway(value)

\* internal/math/impl_fallback.rs round_f32 (i32), round_f64 (i64)
impl_fallback_round(value, fmt) ==
    LET int_part == IF FLe(Zero, value)
                    THEN AsSigned(FAdd(value, Half, fmt), IF fmt = "f32" THEN 32 ELSE 64)
                    ELSE AsSigned(FSub(value, Half, fmt), IF fmt = "f32" THEN 32 ELSE 64)
    IN SignedToFloat(int_part, fmt)

\* internal::math::round_f32, round_f64 (used by scalar.rs)
internal_math_round(build, value, fmt) ==
    CASE build = "std"      -> impl_std_round(value)
      [] build = "libm"     -> impl_libm_round(value)
      [] build = "fallback" -> impl_fallback_round(value, fmt)

\* math::round_f32, round_f64 (used by scalar/intensity.rs); the module has
\* no implementation without "std" or "libm".
math_round(build, value, fmt) ==
    CASE build = "std"  -> impl_std_round(value)
      [] build = "libm" -> impl_libm_round(value)

\* const SCALE_U8: f32 = u8::MAX as f32 / u16::MAX as f32
SCALE_U8 == FDiv(FromNat(U8Max), FromNat(U16Max), "f32")

\* const SCALE_U16 as a shift by eight bits
SCALE_U16_Shift == FromNat(U8Max + 1)

\* const SCALE_U16: f32 = u16::MAX as f32 / u8::MAX as f32
SCALE_U16 == FDiv(FromNat(U16Max), FromNat(U8Max), "f32")

\* FLOAT_32_U8 and FLOAT_64_U8 as the number of values, 256
FLOAT_U8_Count == FromNat(U8Max + 1)

\* const FLOAT_32_U8: f32 = u8::MAX as f32; const FLOAT_64_U8
FLOAT_U8 == FromNat(U8Max)

\* const FLOAT_32_U16: f32 = u16::MAX as f32; const FLOAT_64_U16
FLOAT_U16 == FromNat(U16Max)

IntTypes == {"u8", "u16"}

\* Intensity::MAX of u8 and u16
MAX(t) == IF t = "u8" THEN U8Max ELSE U16Max

\* Scalar::to_scaled_u8 of a value x of type t
to_scaled_u8(build, t, x) ==
    CASE t = "u8"  -> x
      [] t = "u16" -> AsUnsigned(internal_math_round(build, FMul(FromNat(x), SCALE_U8, "f32"), "f32"), U8Max)
      [] t = "f32" -> AsUnsigned(internal_math_round(build, FMul(x, FLOAT_U8, "f32"), "f32"), U8Max)
      [] t = "f64" -> AsUnsigned(internal_math_round(build, FMul(x, FLOAT_U8, "f64"), "f64"), U8Max)

\* to_scaled_u16 widening a u8 by the cast alone
to_scaled_u16_Widening(build, t, x) ==
    CASE t = "u8"  -> x
      [] t = "u16" -> x
      [] t = "f32" -> AsUnsigned(internal_math_round(build, FMul(x, FLOAT_U16, "f32"), "f32"), U16Max)
      [] t = "f64" -> AsUnsigned(internal_math_round(build, FMul(x, FLOAT_U16, "f64"), "f64"), U16Max)

\* Scalar::to_scaled_u16
to_scaled_u16(build, t, x) ==
    CASE t = "u8"  -> AsUnsigned(internal_math_round(build, FMul(FromNat(x), SCALE_U16, "f32"), "f32"), U16Max)
      [] t = "u16" -> x
      [] t = "f32" -> AsUnsigned(internal_math_round(build, FMul(x, FLOAT_U16, "f32"), "f32"), U16Max)
      [] t = "f64" -> AsUnsigned(internal_math_round(build, FMul(x, FLOAT_U16, "f64"), "f64"), U16Max)

\* `x as f32` of an f64
NarrowToF32(x) == IF x.kind = "finite" THEN FRound(x.neg, x.m, x.e, "f32") ELSE x

\* to_normal_f32 dividing every integer by u16::MAX
to_normal_f32_ByU16Max(t, x) ==
    IF t \in IntTypes THEN FDiv(FromNat(x), FLOAT_U16, "f32") ELSE x

\* Scalar::to_normal_f32
to_normal_f32(t, x) ==
    CASE t = "u8"  -> FDiv(FromNat(x), FLOAT_U8, "f32")
      [] t = "u16" -> FDiv(FromNat(x), FLOAT_U16, "f32")
      [] t = "f32" -> x
      [] t = "f64" -> NarrowToF32(x)

\* Scalar::to_normal_f64
to_normal_f64(t, x) ==
    CASE t = "u8"  -> FDiv(FromNat(x), FLOAT_U8, "f64")
      [] t = "u16" -> FDiv(FromNat(x), FLOAT_U16, "f64")
      [] t = "f32" -> x
      [] t = "f64" -> x

\* Intensity::from_normalized_f32 (fmt = "f32") and from_normalized_f64
\* (fmt = "f64") for u8 and u16
from_normalized(build, t, fmt, value) ==
    AsUnsigned(math_round(build, FMul(value, FromNat(MAX(t)), fmt), fmt), MAX(t))

\* f32::clamp, f64::clamp
clamp(value, min, max) ==
    IF FLt(value, min) THEN min
    ELSE IF FLt(max, value) THEN max
    ELSE value

\* Option: None is <<>>, Some(v) is <<v>>
None == <<>>

Some(v) == <<v>>

\* new rejecting the lower bound as well
Norm_new_ExclusiveZero(value) ==
    IF FLe(value, Zero) \/ FLt(One, value) THEN None ELSE Some(value)

\* NormF32::new, NormF64::new
Norm_new(value) ==
    IF FLt(value, Zero) \/ FLt(One, value) THEN None ELSE Some(value)

\* new_clamped clamping from above only
Norm_new_clamped_UpperOnly(value) == IF FLt(One, value) THEN One ELSE value

\* NormF32::new_clamped, NormF64::new_clamped
Norm_new_clamped(value) == clamp(value, Zero, One)

\* TryFrom<f32> for NormF32, TryFrom<f64> for NormF64: Self::new(value).ok_or(())
Norm_try_from(value) == Norm_new(value)

\* NormF32::new_unchecked, NormF64::new_unchecked in a build with debug
\* assertions: debug_assert!(value >= 0.0 && value <= 1.0), then Self(value).
\* None stands for the panic of a failed assertion.
Norm_new_unchecked(value) ==
    IF FLe(Zero, value) /\ FLe(value, One) THEN Some(value) ELSE None

\* to_float_intensity dividing by u8::MAX whatever the type
to_float_intensity_ByU8Max(t, x, fmt) == FDiv(FromNat(x), FromNat(U8Max), fmt)

\* to_float_intensity::<T, F>: val.into() / T::MAX.into(), in the float type F
to_float_intensity(t, x, fmt) == FDiv(FromNat(x), FromNat(MAX(t)), fmt)

(***************************************************************************)
(* The state: one colour value and the record of what was done to it.      *)
(***************************************************************************)
VARIABLES
    ty,        \* the type of the colour under test
    endian,    \* byte order of the build, "unobserved" until a transmute reads it
    self,      \* the colour value
    op,        \* the operation applied last ("default" before any)
    arg,       \* the arguments of that operation
    calls,     \* number of setter calls applied to the value so far
    initial,   \* the value as constructed, before any setter call
    lastSet,   \* per component, the argument of its latest setter call, or NotSet
    ret,       \* what the call that consumed the value returned, NoReturn before
    build,     \* the math implementation the crate's features select
    origin,    \* the scalar a chain of conversions started from
    val,       \* the scalar the chain has reached, with its type
    path       \* the conversions applied so far, in order

colorVars == <<ty, endian, self, op, arg, calls, initial, lastSet, ret>>

scalarVars == <<build, origin, val, path>>

vars == <<ty, endian, self, op, arg, calls, initial, lastSet, ret, build, origin, val, path>>

NotSet == -1

NeverSet(t) == [k \in Components(t) |-> NotSet]

\* The value has not been consumed.
NoReturn == [fn |-> "none", out |-> <<>>]

\* A scalar value of type t.
Scalar(t, v) == [t |-> t, v |-> v]

\* No conversion is under way.
NoScalar ==
    /\ build = "unobserved"
    /\ origin = Scalar("none", 0)
    /\ val = origin
    /\ path = <<>>

\* A default-constructed colour of type t, nothing done to it yet.
Fresh(t) ==
    /\ ty = t
    /\ endian = "unobserved"
    /\ self = Default(ty)
    /\ op = "default"
    /\ arg = <<>>
    /\ calls = 0
    /\ initial = self
    /\ lastSet = NeverSet(ty)
    /\ ret = NoReturn

Init ==
    /\ \E t \in Types : Fresh(t)
    /\ NoScalar

\* A constructor replaces the default value, once, before any setter call
\* and before the value is consumed.
Construct(name, args, value) ==
    /\ ret = NoReturn
    /\ self' = value
    /\ initial' = value
    /\ op' = name
    /\ arg' = args
    /\ UNCHANGED <<ty, calls, lastSet, ret>>
    /\ UNCHANGED scalarVars

\* Rgb565::new, Argb1555::new, Argb4444::new
New ==
    /\ op = "default"
    /\ ty \in PackedTypes
    /\ \E p \in WordSamples : Construct("new", <<p>>, [packed |-> p])
    /\ UNCHANGED endian

\* Rgb565::from_rgb, Argb1555::from_rgb
FromRgb ==
    /\ op = "default"
    /\ ty \in {"Rgb565", "Argb1555"}
    /\ \E r \in CtorSamples, g \in CtorSamples, b \in CtorSamples :
          Construct("from_rgb", <<r, g, b>>,
                    [packed |-> IF ty = "Rgb565" THEN Rgb565_from_rgb(r, g, b)
                                ELSE Argb1555_from_rgb(r, g, b)])
    /\ UNCHANGED endian

\* Argb4444::from_argb
FromArgb4444 ==
    /\ op = "default"
    /\ ty = "Argb4444"
    /\ \E a \in QuadSamples, r \in QuadSamples, g \in QuadSamples, b \in QuadSamples :
          Construct("from_argb", <<a, r, g, b>>, [packed |-> Argb4444_from_argb(a, r, g, b)])
    /\ UNCHANGED endian

\* Abgr8888::new, Argb8888::new: the transmute reads the build's byte order
New8888 ==
    /\ op = "default"
    /\ ty \in AlphaFirstTypes
    /\ \E e \in Endian, p \in DWordSamples :
          /\ endian' = e
          /\ Construct("new", <<p>>,
                       IF ty = "Abgr8888" THEN Abgr8888_new(e, p) ELSE Argb8888_new(e, p))

\* Abgr8888::from_abgr
FromAbgr ==
    /\ op = "default"
    /\ ty = "Abgr8888"
    /\ \E e \in Endian, a \in QuadSamples, b \in QuadSamples, g \in QuadSamples, r \in QuadSamples :
          /\ endian' = e
          /\ Construct("from_abgr", <<a, b, g, r>>, from_abgr(e, a, b, g, r))

\* Argb8888::from_argb
FromArgb ==
    /\ op = "default"
    /\ ty = "Argb8888"
    /\ \E e \in Endian, a \in QuadSamples, r \in QuadSamples, g \in QuadSamples, b \in QuadSamples :
          /\ endian' = e
          /\ Construct("from_argb", <<a, r, g, b>>, from_argb(e, a, r, g, b))

\* HasRed::new_red on an AlphaFirst or AlphaLast composite
NewRed ==
    /\ op = "default"
    /\ ty \in {"Abgr8888", "Argb8888", "AlphaLastRgb888"}
    /\ \E v \in ByteSamples :
          Construct("new_red", <<v>>,
                    IF ty \in AlphaFirstTypes THEN AlphaFirst_new_red(ty, v)
                    ELSE AlphaLast_new_red(ty, v))
    /\ UNCHANGED endian

\* HasGreen::new_green on an AlphaFirst or AlphaLast composite
NewGreen ==
    /\ op = "default"
    /\ ty \in {"Abgr8888", "Argb8888", "AlphaLastRgb888"}
    /\ \E v \in ByteSamples :
          Construct("new_green", <<v>>,
                    IF ty \in AlphaFirstTypes THEN AlphaFirst_new_green(ty, v)
                    ELSE AlphaLast_new_green(ty, v))
    /\ UNCHANGED endian

\* HasBlue::new_blue on an AlphaFirst or AlphaLast composite
NewBlue ==
    /\ op = "default"
    /\ ty \in {"Abgr8888", "Argb8888", "AlphaLastRgb888"}
    /\ \E v \in ByteSamples :
          Construct("new_blue", <<v>>,
                    IF ty \in AlphaFirstTypes THEN AlphaFirst_new_blue(ty, v)
                    ELSE AlphaLast_new_blue(ty, v))
    /\ UNCHANGED endian

\* HasGray::new_gray on GrayAlpha8
NewGray ==
    /\ op = "default"
    /\ ty = "GrayAlpha8"
    /\ \E v \in ByteSamples : Construct("new_gray", <<v>>, new_gray(ty, v))
    /\ UNCHANGED endian

\* HasAlpha::new_alpha
NewAlpha ==
    /\ op = "default"
    /\ "alpha" \in Components(ty)
    /\ \E v \in ByteSamples : Construct("new_alpha", <<v>>, new_alpha(ty, v))
    /\ UNCHANGED endian

\* GrayAlpha8::new
NewGrayAlpha8 ==
    /\ op = "default"
    /\ ty = "GrayAlpha8"
    /\ \E g \in ByteSamples, a \in ByteSamples :
          Construct("new", <<g, a>>, GrayAlpha8_new(g, a))
    /\ UNCHANGED endian

\* A setter call on the value, of component k with argument v.
Call(name, k, v) ==
    /\ k \in Components(ty)
    /\ calls < MaxCalls
    /\ self' = Set(ty, self, k, v)
    /\ op' = name
    /\ arg' = <<v>>
    /\ calls' = calls + 1
    /\ lastSet' = [lastSet EXCEPT ![k] = v]
    /\ UNCHANGED <<ty, endian, initial, ret>>
    /\ UNCHANGED scalarVars

SetAlpha == \E v \in ByteSamples : Call("set_alpha", "alpha", v)

SetRed == \E v \in ByteSamples : Call("set_red", "red", v)

SetGreen == \E v \in ByteSamples : Call("set_green", "green", v)

SetBlue == \E v \in ByteSamples : Call("set_blue", "blue", v)

SetGray == \E v \in ByteSamples : Call("set_gray", "gray", v)

Next ==
    \/ New
    \/ FromRgb
    \/ FromArgb4444
    \/ New8888
    \/ FromAbgr
    \/ FromArgb
    \/ NewRed
    \/ NewGreen
    \/ NewBlue
    \/ NewGray
    \/ NewAlpha
    \/ NewGrayAlpha8
    \/ SetAlpha
    \/ SetRed
    \/ SetGreen
    \/ SetBlue
    \/ SetGray

Spec == Init /\ [][Next]_vars

(***************************************************************************)
(* The provided constructors of the RgbColor and RgbaColor traits, the     *)
(* with_color constructors of the composites, and the calls that consume a *)
(* value and return its parts.  One value is constructed, once, and then   *)
(* consumed, once.                                                         *)
(***************************************************************************)
\* Three 8-bit arguments: one of them any byte, the other two samples.
TripleSamples ==
    {<<x, y, z>> : x \in 0..U8Max, y \in CtorSamples, z \in CtorSamples} \cup
    {<<y, x, z>> : x \in 0..U8Max, y \in CtorSamples, z \in CtorSamples} \cup
    {<<y, z, x>> : x \in 0..U8Max, y \in CtorSamples, z \in CtorSamples}

\* Payloads handed to with_color, of the payload type of composite type t.
PayloadSamples(t) ==
    IF t = "GrayAlpha8" THEN {GrayNew(v) : v \in ByteSamples}
    ELSE {RgbNew(r, g, b) : r \in QuadSamples, g \in QuadSamples, b \in QuadSamples}

TraitInit ==
    /\ \E t \in Types \cup PlainTypes : Fresh(t)
    /\ NoScalar

\* RgbColor::from_rgb (provided method): default, set_red, set_green, set_blue
RgbColorFromRgb ==
    /\ op = "default"
    /\ {"red", "green", "blue"} \subseteq Components(ty)
    /\ \E a \in TripleSamples :
          Construct("RgbColor::from_rgb", a,
                    set_blue(ty, set_green(ty, set_red(ty, Default(ty), a[1]), a[2]), a[3]))
    /\ UNCHANGED endian

\* RgbaColor::from_rgba (provided method): default, set_red, set_green,
\* set_blue, set_alpha
RgbaColorFromRgba ==
    /\ op = "default"
    /\ {"red", "green", "blue", "alpha"} \subseteq Components(ty)
    /\ \E r \in QuadSamples, g \in QuadSamples, b \in QuadSamples, a \in QuadSamples :
          Construct("RgbaColor::from_rgba", <<r, g, b, a>>,
                    set_alpha(ty, set_blue(ty, set_green(ty, set_red(ty, Default(ty), r), g), b), a))
    /\ UNCHANGED endian

\* AlphaFirst::with_color, AlphaLast::with_color
WithColor ==
    /\ op = "default"
    /\ ty \in AlphaFirstTypes \cup AlphaLastTypes
    /\ \E a \in ByteSamples, c \in PayloadSamples(ty) :
          Construct("with_color", <<a, c>>, with_color(a, c))
    /\ UNCHANGED endian

\* Rgb565::new, on every 16-bit word
NewWord ==
    /\ op = "default"
    /\ ty = "Rgb565"
    /\ \E p \in 0..U16Max : Construct("new", <<p>>, [packed |-> p])
    /\ UNCHANGED endian

\* A call that consumes the value and returns out.
Consume(fn, out) ==
    /\ ret = NoReturn
    /\ ret' = [fn |-> fn, out |-> out]
    /\ UNCHANGED <<ty, endian, self, op, arg, calls, initial, lastSet>>
    /\ UNCHANGED scalarVars

\* RgbColor::into_rgb
IntoRgb ==
    /\ {"red", "green", "blue"} \subseteq Components(ty)
    /\ Consume("into_rgb", <<red(ty, self), green(ty, self), blue(ty, self)>>)

\* RgbaColor::into_rgba
IntoRgba ==
    /\ {"red", "green", "blue", "alpha"} \subseteq Components(ty)
    /\ Consume("into_rgba", <<red(ty, self), green(ty, self), blue(ty, self), alpha(ty, self)>>)

\* AlphaFirst::into_inner returns (alpha, color), AlphaLast::into_inner
\* returns (color, alpha)
IntoInner ==
    /\ ty \in AlphaFirstTypes \cup AlphaLastTypes
    /\ Consume("into_inner", IF ty \in AlphaFirstTypes THEN <<self.alpha, self.color>>
                                                       ELSE <<self.color, self.alpha>>)

\* Rgb565::from_rgb called with the three values into_rgb returned
FromRgbReturned ==
    /\ ty = "Rgb565"
    /\ op = "new"
    /\ ret.fn = "into_rgb"
    /\ self' = [packed |-> Rgb565_from_rgb(ret.out[1], ret.out[2], ret.out[3])]
    /\ op' = "from_rgb"
    /\ arg' = ret.out
    /\ UNCHANGED <<ty, endian, calls, initial, lastSet, ret>>
    /\ UNCHANGED scalarVars

TraitNext ==
    \/ RgbColorFromRgb
    \/ RgbaColorFromRgba
    \/ WithColor
    \/ NewWord
    \/ IntoRgb
    \/ IntoRgba
    \/ IntoInner
    \/ FromRgbReturned

TraitSpec == TraitInit /\ [][TraitNext]_vars

(***************************************************************************)
(* Chains of scalar conversions.                                           *)
(***************************************************************************)
MaxSteps == 2

\* The float of value (-1)^neg * n * 2^e.
F(neg, n, e) == Finite(neg, NatToLimbs(n), e)

U8Samples == 0..U8Max

\* 16-bit values: the extremes and their neighbours, the values around the
\* middle and around multiples of 255, 256 and 257, and 128 values spread
\* over the whole range.
U16Samples ==
    {0, 1, 127, 128, 129, 255, 256, 257, 32639, 32767, 32768, 32896, 65279, 65534, U16Max} \cup
    {(521 * k + 77) % (U16Max + 1) : k \in 0..127}

\* f32 values: NaN, the infinities, both zeros, the bounds of [0, 1] and
\* their neighbours, 0.5 and its lower neighbour, values outside [0, 1], the
\* smallest and largest magnitudes, and values whose product with 255 or
\* 65535 is, or rounds to, a half-integer or the value just below 0.5.
F32Samples ==
    {NaN, Inf(FALSE), Inf(TRUE), Zero, Finite(TRUE, <<>>, 0), One, Half,
     F(FALSE, 1, -2), F(FALSE, 3, -2), F(FALSE, 8388609, -23), F(FALSE, 16777215, -24),
     F(FALSE, 1, 1), F(FALSE, 9227469, -23), F(TRUE, 13421773, -27), F(TRUE, 1, -3),
     F(TRUE, 1, -149), F(FALSE, 1, -149), F(FALSE, 16777215, 104), F(TRUE, 16777215, 104),
     F(FALSE, 16777215, -25), F(FALSE, 8454401, -24), F(FALSE, 8454145, -24),
     F(FALSE, 65793, -25), F(FALSE, 257, -25), F(FALSE, 8421505, -24),
     F(TRUE, 1, -1), F(TRUE, 3, -1)}

\* f64 values: the f32 values, and the like with 53-bit significands.
F64Samples ==
    F32Samples \cup
    {Finite(FALSE, <<19661, 6553, 13107, 102>>, -55), Finite(FALSE, <<1, 0, 0, 128>>, -52),
     Finite(FALSE, Ones(53), -53), Finite(FALSE, Ones(53), -54),
     Finite(FALSE, Ones(53), 971), Finite(TRUE, Ones(53), 971),
     Finite(FALSE, <<257, 514, 1028, 4>>, -48), Finite(FALSE, <<233, 466, 932, 4>>, -48),
     F(FALSE, 1, -1074), F(TRUE, 1, -1074)}

ScalarInputs ==
    {Scalar("u8", v) : v \in U8Samples} \cup {Scalar("u16", v) : v \in U16Samples} \cup
    {Scalar("f32", v) : v \in F32Samples} \cup {Scalar("f64", v) : v \in F64Samples}

FloatTypes == {"f32", "f64"}

ScalarInit ==
    /\ Fresh("Rgb565")
    /\ build \in Builds
    /\ origin \in ScalarInputs
    /\ val = origin
    /\ path = <<>>

\* One conversion, named fn, takes the chain from val to next.
Step(fn, next) ==
    /\ Len(path) < MaxSteps
    /\ val' = next
    /\ path' = Append(path, fn)
    /\ UNCHANGED <<build, origin>>
    /\ UNCHANGED colorVars

\* Scalar::to_scaled_u8
ToScaledU8 ==
    /\ val.t \in IntTypes \cup FloatTypes
    /\ Step("to_scaled_u8", Scalar("u8", to_scaled_u8(build, val.t, val.v)))

\* Scalar::to_scaled_u16
ToScaledU16 ==
    /\ val.t \in IntTypes \cup FloatTypes
    /\ Step("to_scaled_u16", Scalar("u16", to_scaled_u16(build, val.t, val.v)))

\* Scalar::to_normal_f32
ToNormalF32 ==
    /\ val.t \in IntTypes \cup FloatTypes
    /\ Step("to_normal_f32", Scalar("f32", to_normal_f32(val.t, val.v)))

\* Scalar::to_normal_f64
ToNormalF64 ==
    /\ val.t \in IntTypes \cup FloatTypes
    /\ Step("to_normal_f64", Scalar("f64", to_normal_f64(val.t, val.v)))

\* u8::from_normalized_f32, u16::from_normalized_f32, u8::from_normalized_f64,
\* u16::from_normalized_f64; compiled with feature "std" or "libm" only.
FromNormalized ==
    /\ val.t \in FloatTypes
    /\ build # "fallback"
    /\ \E t \in IntTypes :
          Step(IF val.t = "f32" THEN "from_normalized_f32" ELSE "from_normalized_f64",
               Scalar(t, from_normalized(build, t, val.t, val.v)))

\* The normalized type of a float type.
NormOf(t) == IF t = "f32" THEN "NormF32" ELSE "NormF64"

\* NormF32::new, NormF64::new
NormNew ==
    /\ val.t \in FloatTypes
    /\ Step("new", [t |-> "Option", of |-> NormOf(val.t), v |-> Norm_new(val.v)])

\* NormF32::new_clamped, NormF64::new_clamped
NormNewClamped ==
    /\ val.t \in FloatTypes
    /\ Step("new_clamped", Scalar(NormOf(val.t), Norm_new_clamped(val.v)))

\* NormF32::try_from, NormF64::try_from
NormTryFrom ==
    /\ val.t \in FloatTypes
    /\ Step("try_from", [t |-> "Result", of |-> NormOf(val.t), v |-> Norm_try_from(val.v)])

\* Normalize::<NormF32>::normalize and Normalize::<NormF64>::normalize of an
\* integer intensity
Normalize ==
    /\ val.t \in IntTypes
    /\ \E fmt \in FloatTypes :
          Step("normalize", [t |-> "Option", of |-> NormOf(fmt),
                             v |-> Norm_new(to_float_intensity(val.t, val.v, fmt))])

\* Normalize::normalize_unchecked of an integer intensity; "panicked" when
\* the debug assertion of new_unchecked fails
NormalizeUnchecked ==
    /\ val.t \in IntTypes
    /\ \E fmt \in FloatTypes :
          LET n == Norm_new_unchecked(to_float_intensity(val.t, val.v, fmt))
          IN Step("normalize_unchecked",
                  IF n = None THEN [t |-> "panicked", of |-> NormOf(fmt), v |-> None]
                  ELSE [t |-> NormOf(fmt), of |-> NormOf(fmt), v |-> n[1]])

\* internal::math::round_f32, round_f64, as the build's features select it
Round ==
    /\ val.t \in FloatTypes
    /\ Step("round", Scalar(val.t, internal_math_round(build, val.v, val.t)))

ScalarNext ==
    \/ ToScaledU8
    \/ ToScaledU16
    \/ ToNormalF32
    \/ ToNormalF64
    \/ FromNormalized
    \/ NormNew
    \/ NormNewClamped
    \/ NormTryFrom
    \/ Normalize
    \/ NormalizeUnchecked
    \/ Round

ScalarSpec == ScalarInit /\ [][ScalarNext]_vars

(***************************************************************************)
(* Properties.                                                             *)
(***************************************************************************)
Setters == {"set_alpha", "set_red", "set_green", "set_blue", "set_gray"}

\* The component a setter writes.
ComponentOf(name) ==
    CASE name = "set_alpha" -> "alpha"
      [] name = "set_red"   -> "red"
      [] name = "set_green" -> "green"
      [] name = "set_blue"  -> "blue"
      [] name = "set_gray"  -> "gray"

\* A setter call of type t leaves every other component's getter unchanged.
FrameStep(t) ==
    (ty = t /\ op' \in Setters) =>
        \A k \in Components(t) \ {ComponentOf(op')} :
            Get(t, self', k) = Get(t, self, k)

\* C1: for Rgb565, each of set_red, set_green and set_blue, on any packed
\* colour and with any 8-bit argument, leaves the values of the other two
\* component getters unchanged.
C1_Rgb565SetterFrame == [][FrameStep("Rgb565")]_vars

\* C2: in every packed format's field table the clear constant equals the
\* 16-bit complement of (mask << shift).
C2_ClearIsComplement ==
    ty \in PackedTypes =>
        \A k \in Components(ty) :
            Fields(ty)[k].clear = Not16(Shl16(Fields(ty)[k].mask, Fields(ty)[k].shift))

\* C3: for every packed format and field, the setter called with v on any
\* packed colour, followed by the matching getter, returns v & mask; and
\* setting green to 0 on Rgb565::from_rgb(31, 63, 31) reads back (31, 0, 31).
C3_SetThenGet ==
    /\ (ty \in PackedTypes /\ op \in Setters) =>
          Get(ty, self, ComponentOf(op)) = BitAnd(arg[1], Fields(ty)[ComponentOf(op)].mask)
    /\ (/\ ty = "Rgb565"
        /\ initial = [packed |-> Rgb565_from_rgb(31, 63, 31)]
        /\ calls = 1
        /\ op = "set_green"
        /\ arg = <<0>>) =>
          <<red(ty, self), green(ty, self), blue(ty, self)>> = <<31, 0, 31>>

\* C4: for every 16-bit word p each packed getter returns exactly
\* (p >> shift) & mask, the field's bits and nothing else, so the result
\* never exceeds the mask; Rgb565::new(0xFFFF) reads red 31, green 63, blue 31.
C4_GetterExact ==
    ty \in PackedTypes =>
        /\ \A k \in Components(ty) :
              LET f == Fields(ty)[k]
              IN /\ Get(ty, self, k) = (self.packed \div (2 ^ f.shift)) % (f.mask + 1)
                 /\ Get(ty, self, k) <= f.mask
        /\ (ty = "Rgb565" /\ self.packed = 65535) =>
              <<red(ty, self), green(ty, self), blue(ty, self)>> = <<31, 63, 31>>

\* C4 witness: Rgb565::new(0xFFFF) has been constructed and read.
C4_Witness ==
    /\ ty = "Rgb565"
    /\ op = "new"
    /\ arg = <<65535>>
    /\ green(ty, self) = 63

\* C5: for Argb1555, each of set_alpha, set_red, set_green and set_blue, on
\* any packed colour and with any 8-bit argument, leaves the values of the
\* other three component getters unchanged.
C5_Argb1555SetterFrame == [][FrameStep("Argb1555")]_vars

\* C6: after any sequence of setter calls on an Argb4444 colour, each getter
\* returns the low 4 bits of the value most recently set for its component,
\* or the component's field value at construction if it was never set.
C6_Argb4444LastSet ==
    ty = "Argb4444" =>
        \A k \in Components(ty) :
            Get(ty, self, k) =
                IF lastSet[k] = NotSet THEN Get(ty, initial, k) ELSE lastSet[k] % 16

\* C6 witness: on Argb4444::new(0xFFFF), red was set twice (last to 0xAA),
\* so red reads 10 while the never-set blue still reads its initial 15.
C6_Witness ==
    /\ ty = "Argb4444"
    /\ initial = [packed |-> 65535]
    /\ calls = 2
    /\ lastSet = [alpha |-> NotSet, red |-> 170, green |-> NotSet, blue |-> NotSet]
    /\ red(ty, self) = 10
    /\ blue(ty, self) = 15

\* C7: Abgr8888::from_abgr(a, b, g, r) returns a colour with alpha a, blue b,
\* green g and red r, and Argb8888::from_argb(a, r, g, b) one with alpha a,
\* red r, green g and blue b, for all 8-bit arguments.
C7_From8888 ==
    /\ op = "from_abgr" =>
          <<alpha(ty, self), blue(ty, self), green(ty, self), red(ty, self)>> = arg
    /\ (ty = "Argb8888" /\ op = "from_argb") =>
          <<alpha(ty, self), red(ty, self), green(ty, self), blue(ty, self)>> = arg

\* The single-channel constructor named `name`, called with v on type t, gave
\* an opaque colour with the named component v and the other two at zero.
OpaqueSingleChannel(t, c, name, v) ==
    /\ alpha(t, c) = AlphaMax
    /\ red(t, c)   = (IF name = "new_red"   THEN v ELSE 0)
    /\ green(t, c) = (IF name = "new_green" THEN v ELSE 0)
    /\ blue(t, c)  = (IF name = "new_blue"  THEN v ELSE 0)

\* C8: for an AlphaLast composite, new_red(v), new_green(v) and new_blue(v)
\* each return a colour whose alpha is MAX, whose named component is v and
\* whose other colour components are zero.
C8_AlphaLastSingleChannel ==
    (ty = "AlphaLastRgb888" /\ op \in {"new_red", "new_green", "new_blue"}) =>
        OpaqueSingleChannel(ty, self, op, arg[1])

C10_GrayAlphaSingleComponent ==
    ty = "GrayAlpha8" =>
        /\ op = "new_gray" =>
              /\ <<gray(ty, self), alpha(ty, self)>> = <<arg[1], 0>>
              /\ self = GrayAlpha8_new(arg[1], 0)
        /\ op = "new_alpha" =>
              /\ <<gray(ty, self), alpha(ty, self)>> = <<0, arg[1]>>
              /\ self = GrayAlpha8_new(0, arg[1])

\* C10 witness: GrayAlpha8::new_gray with a non-zero argument has run.
C10_Witness ==
    /\ ty = "GrayAlpha8"
    /\ op = "new_gray"
    /\ arg = <<170>>
    /\ gray(ty, self) = 170

CompositeTypes == AlphaFirstTypes \cup AlphaLastTypes

\* The payload components in the order the payload struct declares them.
DeclaredPayload(t, c) ==
    CASE t = "Abgr8888"   -> <<blue(t, c), green(t, c), red(t, c)>>
      [] t = "GrayAlpha8" -> <<gray(t, c)>>
      [] OTHER            -> <<red(t, c), green(t, c), blue(t, c)>>

\* C11: a composite with 8-bit components serialises as raw bytes to exactly
\* its fields in declared order with no padding: AlphaFirst gives the alpha
\* byte then the payload bytes, AlphaLast the payload bytes then the alpha
\* byte, and the length is the sum of the field widths (one byte each).
C11_RawBytes ==
    ty \in CompositeTypes =>
        LET bytes == transmute_bytes(ty, self)
        IN /\ ty \in AlphaFirstTypes =>
                 bytes = <<alpha(ty, self)>> \o DeclaredPayload(ty, self)
           /\ ty \in AlphaLastTypes =>
                 bytes = DeclaredPayload(ty, self) \o <<alpha(ty, self)>>
           /\ Len(bytes) = Cardinality(Components(ty))
           /\ \A i \in 1..Len(bytes) : bytes[i] # Padding
           /\ (alpha(ty, self) = 255 /\ \A k \in Components(ty) \ {"alpha"} : Get(ty, self, k) = 0) =>
                 bytes = IF ty \in AlphaFirstTypes THEN <<255, 0, 0, 0>>
                         ELSE IF ty = "GrayAlpha8" THEN <<0, 255>>
                         ELSE <<0, 0, 0, 255>>

\* C11 witness: Abgr8888::new_red(0xAA), alpha 0xFF, lies in memory as
\* alpha, blue, green, red.
C11_Witness ==
    /\ ty = "Abgr8888"
    /\ op = "new_red"
    /\ arg = <<170>>
    /\ transmute_bytes(ty, self) = <<255, 0, 0, 170>>

\* C12: on AlphaFirst and AlphaLast composites, over any sequence of setter
\* calls, set_alpha changes only the alpha field (the payload is unchanged)
\* and set_red, set_green and set_blue change only the named payload
\* component (alpha and the other components are unchanged).
C12_CompositeSetterFrame ==
    [][(ty \in CompositeTypes /\ op' \in Setters) =>
          /\ \A k \in Components(ty) \ {ComponentOf(op')} :
                Get(ty, self', k) = Get(ty, self, k)
          /\ op' = "set_alpha" => self'.color = self.color
          /\ op' # "set_alpha" => self'.alpha = self.alpha]_vars

\* C12 witness: on Argb8888::from_argb(0, 255, 255, 255), set_red(0x3F) and
\* then set_alpha(0xAA) were called; green and blue still read 255.
C12_Witness ==
    /\ ty = "Argb8888"
    /\ initial = with_color(0, RgbNew(255, 255, 255))
    /\ calls = 2
    /\ op = "set_alpha"
    /\ lastSet = [alpha |-> 170, red |-> 63, green |-> NotSet, blue |-> NotSet]
    /\ <<alpha(ty, self), red(ty, self), green(ty, self), blue(ty, self)>> = <<170, 63, 255, 255>>

\* The conversion applied last.
Last(s) == s[Len(s)]

\* x lies in the closed interval [0.0, 1.0].
InUnit(x) == FLe(Zero, x) /\ FLe(x, One)

\* C13: NormF32::new(v) and NormF64::new(v) return a value holding exactly v
\* when 0.0 <= v <= 1.0, and None for every v below 0.0 or above 1.0.
C13_NormNewChecked ==
    [][(path' # path /\ Last(path') = "new") =>
          /\ InUnit(val.v) => val'.v = Some(val.v)
          /\ (FLt(val.v, Zero) \/ FLt(One, val.v)) => val'.v = None]_vars

\* C13 witness: NormF32::new(-0.125) has returned None.
C13_Witness ==
    /\ origin = Scalar("f32", F(TRUE, 1, -3))
    /\ path = <<"new">>
    /\ val = [t |-> "Option", of |-> "NormF32", v |-> None]

\* C14: every Normalized value produced by new, try_from or new_clamped
\* holds a float inside [0.0, 1.0], for every float input including NaN and
\* the infinities.
C14_NormalizedInUnit ==
    /\ val.t \in {"NormF32", "NormF64"} => InUnit(val.v)
    /\ (val.t \in {"Option", "Result"} /\ val.v # None) => InUnit(val.v[1])

\* C15: NormF32::new_clamped(v) and NormF64::new_clamped(v) always succeed
\* and hold 0.0 for every v below 0.0, 1.0 for every v above 1.0, and v
\* itself for every v inside [0.0, 1.0].
C15_NormNewClamped ==
    [][(path' # path /\ Last(path') = "new_clamped") =>
          /\ val'.t = NormOf(val.t)
          /\ FLt(val.v, Zero) => val'.v = Zero
          /\ FLt(One, val.v) => val'.v = One
          /\ InUnit(val.v) => val'.v = val.v]_vars

\* C15 witness: NormF64::new_clamped(-inf) holds 0.0.
C15_Witness ==
    /\ origin = Scalar("f64", Inf(TRUE))
    /\ path = <<"new_clamped">>
    /\ val = Scalar("NormF64", Zero)

\* C16: scaling the minimum and the maximum of one integer width to the
\* other width and back returns exactly the starting value: 0u8 and 255u8
\* through to_scaled_u16 then to_scaled_u8, 0u16 and 65535u16 through
\* to_scaled_u8 then to_scaled_u16.
C16_ExtremesRoundTrip ==
    /\ (/\ origin.t = "u8"
        /\ origin.v \in {0, U8Max}
        /\ path = <<"to_scaled_u16", "to_scaled_u8">>) => val = origin
    /\ (/\ origin.t = "u16"
        /\ origin.v \in {0, U16Max}
        /\ path = <<"to_scaled_u8", "to_scaled_u16">>) => val = origin

\* C16 witness: 255u8 went to u16 and back under the fallback rounding.
C16_Witness ==
    /\ build = "fallback"
    /\ origin = Scalar("u8", U8Max)
    /\ path = <<"to_scaled_u16", "to_scaled_u8">>
    /\ val = Scalar("u8", U8Max)

\* C17: for every 8-bit value v, to_scaled_u16 returns round(v * 65535 / 255)
\* and narrowing that result back with to_scaled_u8 returns a value that
\* differs from v by at most 1.
C17_WidenThenNarrow ==
    origin.t = "u8" =>
        /\ path = <<"to_scaled_u16">> =>
              val.v = (2 * origin.v * U16Max + U8Max) \div (2 * U8Max)
        /\ path = <<"to_scaled_u16", "to_scaled_u8">> =>
              /\ val.v - origin.v <= 1
              /\ origin.v - val.v <= 1

\* C17 witness: 128u8 widened to 32896 and narrowed back.
C17_Witness ==
    /\ origin = Scalar("u8", 128)
    /\ path = <<"to_scaled_u16", "to_scaled_u8">>
    /\ val = Scalar("u8", 128)

FromNormalizedFns == {"from_normalized_f32", "from_normalized_f64"}

\* C18: Intensity::from_normalized_f32 and from_normalized_f64 for u8 and
\* u16 return 0 for every input below 0.0 and MAX for every input above
\* 1.0, exactly as if the input were clamped to [0, 1] before scaling and
\* rounding.
C18_FromNormalizedClamps ==
    (Len(path) = 1 /\ path[1] \in FromNormalizedFns) =>
        /\ FLt(origin.v, Zero) => val.v = 0
        /\ FLt(One, origin.v) => val.v = MAX(val.t)
        /\ val.v = from_normalized(build, val.t, origin.t, clamp(origin.v, Zero, One))

\* C18 witness: u16::from_normalized_f32(1.1) has returned 65535.
C18_Witness ==
    /\ origin = Scalar("f32", F(FALSE, 9227469, -23))
    /\ path = <<"from_normalized_f32">>
    /\ val = Scalar("u16", U16Max)

\* x * max in the float type fmt, rounded to the nearest integer with ties
\* away from zero.
ScaledHalfAway(x, max, fmt) ==
    LimbsToNat(TruncMag(RoundHalfAway(FMul(x, FromNat(max), fmt))))

\* C19: converting a normalized value x in [0, 1] to an integer intensity
\* returns x * MAX rounded to nearest with ties away from zero, so 0.5
\* becomes 128 for u8 and 32768 for u16.
C19_NormalizedToIntensity ==
    (/\ Len(path) = 1
     /\ origin.t \in FloatTypes
     /\ val.t \in IntTypes
     /\ InUnit(origin.v)) =>
        /\ val.v = ScaledHalfAway(origin.v, MAX(val.t), origin.t)
        /\ origin.v = Half => val.v = (IF val.t = "u8" THEN 128 ELSE 32768)

\* C20: for u8 and u16, normalization maps 0 to exactly 0.0 and MAX to
\* exactly 1.0, and conversion from a normalized value maps 0.0 to 0 and
\* 1.0 to MAX.
C20_NormalizationExtremes ==
    Len(path) = 1 =>
        /\ (origin.t \in IntTypes /\ val.t \in FloatTypes) =>
              /\ origin.v = 0 => val.v = Zero
              /\ origin.v = MAX(origin.t) => val.v = One
        /\ (origin.t \in FloatTypes /\ val.t \in IntTypes) =>
              /\ origin.v = Zero => val.v = 0
              /\ origin.v = One => val.v = MAX(val.t)

\* C20 witness: 65535u16 has been normalized to the f64 1.0.
C20_Witness ==
    /\ origin = Scalar("u16", U16Max)
    /\ path = <<"to_normal_f64">>
    /\ val = Scalar("f64", One)

\* x and y are the same float, the sign of a zero aside.
SameFloat(x, y) == x = y \/ (IsZero(x) /\ IsZero(y))

\* C21: the rounding implementation of every build (std, libm, fallback)
\* returns, for every input, the input rounded to the nearest integer with
\* halfway cases away from zero.
C21_RoundingAgrees ==
    [][(path' # path /\ Last(path') = "round") =>
          SameFloat(val'.v, RoundHalfAway(val.v))]_vars

\* A component value as a field of type t holds it: the low bits that fit
\* the field's mask for a packed type, all eight bits otherwise.
Reduced(t, k, v) == IF t \in PackedTypes THEN BitAnd(v, Fields(t)[k].mask) ELSE v

\* C22: RgbColor::from_rgb(r, g, b) followed by into_rgb returns each
\* component as given, reduced to the field's bit width for packed formats;
\* RgbaColor::from_rgba followed by into_rgba likewise returns red, green,
\* blue and the alpha given.
C22_FromRgbIntoRgb ==
    /\ (op = "RgbColor::from_rgb" /\ ret.fn = "into_rgb") =>
          ret.out = <<Reduced(ty, "red", arg[1]), Reduced(ty, "green", arg[2]),
                      Reduced(ty, "blue", arg[3])>>
    /\ (op = "RgbaColor::from_rgba" /\ ret.fn = "into_rgba") =>
          ret.out = <<Reduced(ty, "red", arg[1]), Reduced(ty, "green", arg[2]),
                      Reduced(ty, "blue", arg[3]), Reduced(ty, "alpha", arg[4])>>

\* C22 witness: Argb4444 built by RgbaColor::from_rgba(170, 255, 0, 255) has
\* returned (10, 15, 0, 15) from into_rgba.
C22_Witness ==
    /\ ty = "Argb4444"
    /\ op = "RgbaColor::from_rgba"
    /\ arg = <<170, 255, 0, 255>>
    /\ ret = [fn |-> "into_rgba", out |-> <<10, 15, 0, 15>>]

\* The packed word of Argb1555::TRANSPARENT.
Argb1555_TRANSPARENT == [packed |-> 0]

\* C23: Argb1555::from_rgb(r, g, b) is fully opaque, alpha() = 1, with
\* red() = r & 0x1F, green() = g & 0x1F and blue() = b & 0x1F;
\* Argb1555::new(0xFFFF) equals from_rgb(31, 31, 31) and Argb1555::new(0)
\* equals TRANSPARENT.
C23_Argb1555FromRgb ==
    (ty = "Argb1555" /\ calls = 0) =>
        /\ op = "from_rgb" =>
              /\ alpha(ty, self) = 1
              /\ red(ty, self) = BitAnd(arg[1], 31)
              /\ green(ty, self) = BitAnd(arg[2], 31)
              /\ blue(ty, self) = BitAnd(arg[3], 31)
        /\ (op = "new" /\ arg = <<U16Max>>) =>
              self = [packed |-> Argb1555_from_rgb(31, 31, 31)]
        /\ (op = "new" /\ arg = <<0>>) => self = Argb1555_TRANSPARENT

\* C23 witness: Argb1555::from_rgb(170, 255, 31) reads alpha 1, red 10,
\* green 31, blue 31.
C23_Witness ==
    /\ ty = "Argb1555"
    /\ op = "from_rgb"
    /\ arg = <<170, 255, 31>>
    /\ calls = 0
    /\ <<alpha(ty, self), red(ty, self), green(ty, self), blue(ty, self)>> = <<1, 10, 31, 31>>

\* The bits of the packed word a field occupies: mask << shift.
BitRange(f) == Shl16(f.mask, f.shift)

\* The number of bits of a field: its mask is 2^width - 1.
BitWidth(f) == CHOOSE w \in 0..16 : 2 ^ w = f.mask + 1

RECURSIVE SumOfWidths(_, _)
SumOfWidths(t, ks) ==
    IF ks = {} THEN 0
    ELSE LET k == CHOOSE x \in ks : TRUE
         IN BitWidth(Fields(t)[k]) + SumOfWidths(t, ks \ {k})

C25_WithColorStores ==
    op = "with_color" =>
        /\ alpha(ty, self) = arg[1]
        /\ self.color = arg[2]
        /\ ret.fn = "into_inner" =>
              ret.out = IF ty \in AlphaFirstTypes THEN <<arg[1], arg[2]>>
                                                  ELSE <<arg[2], arg[1]>>

\* C25 witness: AlphaLast::with_color(63, Rgb(170, 0, 255)) has returned
\* (Rgb(170, 0, 255), 63) from into_inner.
C25_Witness ==
    /\ ty = "AlphaLastRgb888"
    /\ op = "with_color"
    /\ ret = [fn |-> "into_inner", out |-> <<RgbNew(170, 0, 255), 63>>]

\* C26: for every 16-bit word p, Rgb565::from_rgb of the red, green and
\* blue read from Rgb565::new(p) equals Rgb565::new(p).
C26_Rgb565Rebuild ==
    (ty = "Rgb565" /\ op = "from_rgb" /\ ret.fn = "into_rgb") => self = initial

\* C26 witness: Rgb565::new(0xAAAA) read as (21, 21, 10) and rebuilt.
C26_Witness ==
    /\ ty = "Rgb565"
    /\ initial = [packed |-> 43690]
    /\ op = "from_rgb"
    /\ arg = <<21, 21, 10>>
    /\ self = initial

\* The components set so far.
WasSet == {k \in Components(ty) : lastSet[k] # NotSet}

\* C27: for each packed format, setters of two different components
\* commute: set_X(x) then set_Y(y) gives the same packed word as set_Y(y)
\* then set_X(x).
C27_SettersCommute ==
    (ty \in PackedTypes /\ calls = 2 /\ Cardinality(WasSet) = 2) =>
        LET Y == ComponentOf(op)
            X == CHOOSE k \in WasSet : k # Y
        IN self = Set(ty, Set(ty, initial, Y, lastSet[Y]), X, lastSet[X])

\* C28: the provided RgbColor::from_rgb on Rgb565 (default, set_red,
\* set_green, set_blue) gives the same packed word as the inherent
\* Rgb565::from_rgb(r, g, b).
C28_TraitDefaultAgrees ==
    (ty = "Rgb565" /\ op = "RgbColor::from_rgb") =>
        self = [packed |-> Rgb565_from_rgb(arg[1], arg[2], arg[3])]

\* C28 witness: the provided from_rgb(255, 170, 31) on Rgb565 has packed
\* 0xFD5F.
C28_Witness ==
    /\ ty = "Rgb565"
    /\ op = "RgbColor::from_rgb"
    /\ arg = <<255, 170, 31>>
    /\ self = [packed |-> 64863]

\* C29: for every u8 and u16 value v, normalizing v and converting the
\* result back with from_normalized of the same integer width returns v.
C29_NormalizeRoundTrip ==
    (/\ origin.t \in IntTypes
     /\ val.t = origin.t
     /\ path \in {<<"to_normal_f32", "from_normalized_f32">>,
                  <<"to_normal_f64", "from_normalized_f64">>}) => val.v = origin.v

\* C29 witness: 32767u16 normalized to f32 and converted back.
C29_Witness ==
    /\ origin = Scalar("u16", 32767)
    /\ path = <<"to_normal_f32", "from_normalized_f32">>
    /\ val = origin

\* C30: for every u8 and u16 value, Normalize::normalize returns Some with a
\* value in [0.0, 1.0], and Normalize::normalize_unchecked never fails the
\* debug assertion inside new_unchecked.
C30_NormalizeIsSome ==
    (Len(path) = 1 /\ origin.t \in IntTypes) =>
        /\ path[1] = "normalize" => (val.v # None /\ InUnit(val.v[1]))
        /\ path[1] = "normalize_unchecked" => (val.t # "panicked" /\ InUnit(val.v))

\* C30 witness: 128u8 normalized to Some(NormF32(0.5019608)).
C30_Witness ==
    /\ origin = Scalar("u8", 128)
    /\ path = <<"normalize">>
    /\ val = [t |-> "Option", of |-> "NormF32", v |-> Some(F(FALSE, 8421505, -24))]

====
